---- MODULE Spec2Model ----
\* FreezeTool (src/src/core/freeze_logic.py) as a state machine.
\*
\* Three kinds of thread run the code:
\*   - the caller's (GUI) thread runs start_tool and stop_tool;
\*   - every keyboard.Listener created by start_tool is a thread of its own that
\*     runs on_press (and the toggle_freeze it calls) once per key event;
\*   - every threading.Thread created by start_tool runs _spacebar_worker.
\* Each action is one statement of the source (named after its line), so that
\* the threads interleave between statements as they do in the program.
EXTENDS Naturals, Integers, Sequences, FiniteSets, TLC

\* ---------------------------------------------------------------- bounds
\* keyboard listener threads that can exist at a time (a stopped listener's
\* thread lives on until the callback it is running returns)
MaxListeners == 2
\* worker threads that can exist at a time
MaxWorkers == 2
\* screen positions the pointer can be at
NumPoints == 2
\* press_spacebar threads of the standalone script that can exist at a time
MaxTapThreads == 3

PointList == << <<100, 200>>, <<300, 400>>, <<50, 50>>, <<0, 0>> >>
Points == {PointList[i] : i \in 1..NumPoints}
\* Python's None, for a string-valued field, a thread handle and a point
None == "None"
NoThread == 0
NoPoint == << >>

\* keys the keyboard hook can report: 'q', 'Q', another character, F3, F4
Keys == {"q", "Q", "x", "f3", "f4"}
Listeners == 1..MaxListeners
Workers == 1..MaxWorkers
TapThreads == 1..MaxTapThreads

VARIABLES
    \* module globals of freeze_logic.py (None or the imported module)
    pyautogui, keyboard, pynput, mouse,
    \* FreezeTool fields
    saved_coordinates, saved_coordinatesBefore, f3_pressed, freeze_event,
    worker_thread, mouse_listener, keyboard_listener, running,
    \* the last message handed to log()
    lastLog,
    \* the desktop: pointer position, buttons and keys held by injected input,
    \* a started suppressing mouse listener no handle refers to any more
    pointer, leftHeld, spaceHeld, orphanSuppressor,
    \* the caller's thread: its position in start_tool / stop_tool
    pcG,
    \* listener threads: started and not stopped; position in on_press; the key
    \* being handled
    klActive, lpc, lkey,
    \* worker threads: position in _spacebar_worker
    wpc,
    \* history, not program state:
    \*   qSeen: on_press has handled a 'q' event (line 92) in the current session
    \*   calledFrozen: f3_pressed was true when the stop_tool call in progress began
    \*   engagePos: where the pointer was when the last engage sampled it (line 108)
    qSeen, calledFrozen, engagePos,
    \* the window of src/src/ui/main_window.py (Gui) around the tool:
    \*   _is_running: the field the start/stop button toggles (line 65)
    \*   status_indicator: the state StatusIndicator.set_status was last given
    \*   handled: the last message update_status_ui was called with
    \*   gpc: the GUI thread's position in toggle_tool
    _is_running, status_indicator, handled, gpc,
    \* the standalone script src/legacy/Freeze_standalone.py: its globals
    \* (lines 9-13, 46), the listener thread's position in on_press and the key
    \* it handles, and the position of every press_spacebar thread
    standalone_saved_coordinates, standalone_saved_coordinatesBefore,
    standalone_f3_pressed, spacebar_pressed, standalone_mouse_listener,
    opc, okey, tpc

core == <<saved_coordinates, saved_coordinatesBefore, f3_pressed, freeze_event,
          worker_thread, mouse_listener, keyboard_listener, running>>
libs == <<pyautogui, keyboard, pynput, mouse>>
desktop == <<pointer, leftHeld, spaceHeld, orphanSuppressor>>
listeners == <<klActive, lpc, lkey>>
hist == <<qSeen, calledFrozen, engagePos>>
shell == <<_is_running, status_indicator, handled, gpc>>
legacy == <<standalone_saved_coordinates, standalone_saved_coordinatesBefore,
            standalone_f3_pressed, spacebar_pressed, standalone_mouse_listener,
            opc, okey, tpc>>
vars == <<libs, core, lastLog, desktop, pcG, listeners, wpc, hist, shell, legacy>>

\* ---------------------------------------------------------------- helpers
\* key.char.lower() == 'q' for a key that has a char
Lower(k) == IF k = "Q" THEN "q" ELSE k
HasChar(k) == k \in {"q", "Q", "x"}
IsQ(k) == HasChar(k) /\ Lower(k) = "q"
IsF3(k) == k = "f3"

\* some started, not stopped pynput.mouse.Listener(suppress=True) exists
Suppressed == mouse_listener = "live" \/ orphanSuppressor

\* Thread.is_alive(): started and run() has not returned
is_alive(w) == wpc[w] # "dead"

\* a listener thread has ended: stopped, and no callback of it is running
ListenerGone(i) == ~klActive[i] /\ lpc[i] = "idle"
\* the slot a new thread takes: the first one whose thread has ended
FreeListener ==
    IF \E i \in Listeners : ListenerGone(i)
    THEN CHOOSE i \in Listeners :
             ListenerGone(i) /\ \A j \in Listeners : ListenerGone(j) => i <= j
    ELSE NoThread
FreeWorker ==
    IF \E w \in Workers : ~is_alive(w)
    THEN CHOOSE w \in Workers :
             ~is_alive(w) /\ \A v \in Workers : ~is_alive(v) => w <= v
    ELSE NoThread

\* threading.Event.set(): sets the flag and wakes every thread blocked in wait()
\* (a woken wait() returns True whatever the flag is when the thread resumes)
EventSet(pcs) == [w \in Workers |-> IF pcs[w] = "w81b" THEN "w82" ELSE pcs[w]]

\* ---------------------------------------------------------------- Init
\* __init__ (lines 23-32) after the imports of lines 5-20
Init ==
    /\ pyautogui \in BOOLEAN
    /\ keyboard \in BOOLEAN
    /\ pynput = keyboard
    /\ mouse \in BOOLEAN
    /\ saved_coordinates = NoPoint
    /\ saved_coordinatesBefore = NoPoint
    /\ f3_pressed = FALSE
    /\ freeze_event = FALSE
    /\ worker_thread = NoThread
    /\ mouse_listener = None
    /\ keyboard_listener = NoThread
    /\ running = FALSE
    /\ lastLog = None
    /\ pointer = PointList[1]
    /\ leftHeld = FALSE
    /\ spaceHeld = FALSE
    /\ orphanSuppressor = FALSE
    /\ pcG = "idle"
    /\ klActive = [i \in Listeners |-> FALSE]
    /\ lpc = [i \in Listeners |-> "idle"]
    /\ lkey = [i \in Listeners |-> None]
    /\ wpc = [w \in Workers |-> "dead"]
    /\ qSeen = FALSE
    /\ calledFrozen = FALSE
    /\ engagePos = NoPoint
    \* main_window.py: __init__ line 65, _setup_ui line 268
    /\ _is_running = FALSE
    /\ status_indicator = "ready"
    /\ handled = None
    /\ gpc = "idle"
    \* Freeze_standalone.py lines 9-13; no thread but the listener's
    /\ standalone_saved_coordinates = NoPoint
    /\ standalone_saved_coordinatesBefore = NoPoint
    /\ standalone_f3_pressed = FALSE
    /\ spacebar_pressed = FALSE
    /\ standalone_mouse_listener = None
    /\ opc = "idle"
    /\ okey = None
    /\ tpc = [t \in TapThreads |-> "dead"]

\* ---------------------------------------------------------------- start_tool
\* mutant of start_tool: no keyboard check (lines 41-43 left out)
start_tool_no_keyboard_check ==
    /\ pcG = "idle"
    /\ IF running
       THEN UNCHANGED <<running, lastLog, pcG, qSeen>>
       ELSE /\ FreeListener # NoThread
            /\ running' = TRUE
            /\ qSeen' = FALSE
            /\ pcG' = "s46"
            /\ UNCHANGED lastLog
    /\ UNCHANGED <<shell, legacy, libs, saved_coordinates, saved_coordinatesBefore, f3_pressed,
                   freeze_event, worker_thread, mouse_listener, keyboard_listener,
                   desktop, listeners, wpc>>
    /\ UNCHANGED <<calledFrozen, engagePos>>

\* mutant of start_tool: no running check (line 40 left out)
start_tool_no_running_check ==
    /\ pcG = "idle"
    /\ IF ~keyboard
       THEN /\ lastLog' = "Error: pynput.keyboard not available"
            /\ UNCHANGED <<running, pcG, qSeen>>
       ELSE /\ FreeListener # NoThread
            /\ running' = TRUE
            /\ qSeen' = FALSE
            /\ pcG' = "s46"
            /\ UNCHANGED lastLog
    /\ UNCHANGED <<shell, legacy, libs, saved_coordinates, saved_coordinatesBefore, f3_pressed,
                   freeze_event, worker_thread, mouse_listener, keyboard_listener,
                   desktop, listeners, wpc>>
    /\ UNCHANGED <<calledFrozen, engagePos>>

\* lines 39-45: the guards, running = True
start_tool_39 ==
    /\ pcG = "idle"
    /\ IF running
       THEN UNCHANGED <<running, lastLog, pcG, qSeen>>
       ELSE IF ~keyboard
            THEN /\ lastLog' = "Error: pynput.keyboard not available"
                 /\ UNCHANGED <<running, pcG, qSeen>>
            ELSE /\ FreeListener # NoThread
                 /\ running' = TRUE
                 /\ qSeen' = FALSE
                 /\ pcG' = "s46"
                 /\ UNCHANGED lastLog
    /\ UNCHANGED <<libs, saved_coordinates, saved_coordinatesBefore, f3_pressed,
                   freeze_event, worker_thread, mouse_listener, keyboard_listener,
                   desktop, listeners, wpc>>
    /\ UNCHANGED <<calledFrozen, engagePos>>

\* start_tool called by a program that embeds FreezeTool
start_tool == start_tool_39 /\ UNCHANGED <<shell, legacy>>

\* lines 46-47: a new keyboard.Listener(on_press=self.on_press), started
start_tool_46 ==
    /\ pcG = "s46"
    /\ keyboard_listener' = FreeListener
    /\ klActive' = [klActive EXCEPT ![FreeListener] = TRUE]
    /\ pcG' = "s50"
    /\ UNCHANGED <<shell, legacy, libs, saved_coordinates, saved_coordinatesBefore, f3_pressed,
                   freeze_event, worker_thread, mouse_listener, running, lastLog,
                   desktop, lpc, lkey, wpc>>
    /\ UNCHANGED hist

\* mutant of NeedsWorker: a new worker on every start
NeedsWorker_always == TRUE

\* the condition of line 50
NeedsWorker == worker_thread = NoThread \/ ~is_alive(worker_thread)

\* lines 50-52: a new worker thread unless the last one is still alive (the new
\* thread begins at line 76: keyboard is set, or start_tool had returned)
start_tool_50 ==
    /\ pcG = "s50"
    /\ IF NeedsWorker
       THEN /\ FreeWorker # NoThread
            /\ worker_thread' = FreeWorker
            /\ wpc' = [wpc EXCEPT ![FreeWorker] = "w80"]
       ELSE UNCHANGED <<worker_thread, wpc>>
    /\ pcG' = "s54"
    /\ UNCHANGED <<shell, legacy, libs, saved_coordinates, saved_coordinatesBefore, f3_pressed,
                   freeze_event, mouse_listener, keyboard_listener, running, lastLog,
                   desktop, listeners>>
    /\ UNCHANGED hist

\* line 54
start_tool_54 ==
    /\ pcG = "s54"
    /\ lastLog' = "Tool started"
    /\ pcG' = "idle"
    /\ UNCHANGED <<shell, legacy, libs, core, desktop, listeners, wpc>>
    /\ UNCHANGED hist

\* ---------------------------------------------------------------- stop_tool
\* mutant of stop_tool: no running check (line 57 left out)
stop_tool_no_running_check ==
    /\ pcG = "idle"
    /\ running' = FALSE
    /\ qSeen' = FALSE
    /\ calledFrozen' = f3_pressed
    /\ pcG' = "p59"
    /\ UNCHANGED <<shell, legacy, libs, saved_coordinates, saved_coordinatesBefore, f3_pressed,
                   freeze_event, worker_thread, mouse_listener, keyboard_listener,
                   lastLog, desktop, listeners, wpc>>
    /\ UNCHANGED engagePos

\* lines 56-58: the guard, running = False
stop_tool_56 ==
    /\ pcG = "idle"
    /\ IF running
       THEN /\ running' = FALSE
            /\ qSeen' = FALSE
            /\ calledFrozen' = f3_pressed
            /\ pcG' = "p59"
       ELSE UNCHANGED <<running, pcG, qSeen, calledFrozen>>
    /\ UNCHANGED <<libs, saved_coordinates, saved_coordinatesBefore, f3_pressed,
                   freeze_event, worker_thread, mouse_listener, keyboard_listener,
                   lastLog, desktop, listeners, wpc>>
    /\ UNCHANGED engagePos

\* stop_tool called by a program that embeds FreezeTool
stop_tool == stop_tool_56 /\ UNCHANGED <<shell, legacy>>

\* line 59: freeze_event.set(), which wakes a waiting worker
stop_tool_59 ==
    /\ pcG = "p59"
    /\ freeze_event' = TRUE
    /\ wpc' = EventSet(wpc)
    /\ pcG' = "p60"
    /\ UNCHANGED <<shell, legacy, libs, saved_coordinates, saved_coordinatesBefore, f3_pressed,
                   worker_thread, mouse_listener, keyboard_listener, running,
                   lastLog, desktop, listeners>>
    /\ UNCHANGED hist

\* lines 60-61: keyboard_listener.stop(): no further event is delivered; a
\* callback the listener thread is already running is not interrupted
stop_tool_60 ==
    /\ pcG = "p60"
    /\ IF keyboard_listener # NoThread
       THEN klActive' = [klActive EXCEPT ![keyboard_listener] = FALSE]
       ELSE UNCHANGED klActive
    /\ pcG' = "p62"
    /\ UNCHANGED <<shell, legacy, libs, core, lastLog, desktop, lpc, lkey, wpc>>
    /\ UNCHANGED hist

\* line 62
stop_tool_62 ==
    /\ pcG = "p62"
    /\ freeze_event' = FALSE
    /\ pcG' = "p63"
    /\ UNCHANGED <<shell, legacy, libs, saved_coordinates, saved_coordinatesBefore, f3_pressed,
                   worker_thread, mouse_listener, keyboard_listener, running,
                   lastLog, desktop, listeners, wpc>>
    /\ UNCHANGED hist

\* line 63: if self.mouse_listener
stop_tool_63 ==
    /\ pcG = "p63"
    /\ pcG' = IF mouse_listener # None THEN "p64" ELSE "p67"
    /\ UNCHANGED <<shell, legacy, libs, core, lastLog, desktop, listeners, wpc>>
    /\ UNCHANGED hist

\* line 64: self.mouse_listener.stop(); the handle is kept. When the listener
\* thread has set the handle to None since line 63, None.stop() raises
\* AttributeError out of stop_tool.
stop_tool_64 ==
    /\ pcG = "p64"
    /\ IF mouse_listener = None
       THEN /\ pcG' = "idle"
            /\ UNCHANGED mouse_listener
       ELSE /\ mouse_listener' = "stopped"
            /\ pcG' = "p67"
    /\ UNCHANGED <<shell, legacy, libs, saved_coordinates, saved_coordinatesBefore, f3_pressed,
                   freeze_event, worker_thread, keyboard_listener, running,
                   lastLog, desktop, listeners, wpc>>
    /\ calledFrozen' = (calledFrozen /\ mouse_listener # None)
    /\ UNCHANGED <<qSeen, engagePos>>

\* line 67: if self.f3_pressed and mouse
stop_tool_67 ==
    /\ pcG = "p67"
    /\ pcG' = IF f3_pressed /\ mouse THEN "p68" ELSE "p72"
    /\ UNCHANGED <<shell, legacy, libs, core, lastLog, desktop, listeners, wpc>>
    /\ UNCHANGED hist

\* line 68: mouse.release('left')
stop_tool_68 ==
    /\ pcG = "p68"
    /\ leftHeld' = FALSE
    /\ pcG' = "p69"
    /\ UNCHANGED <<shell, legacy, libs, core, lastLog, pointer, spaceHeld, orphanSuppressor,
                   listeners, wpc>>
    /\ UNCHANGED hist

\* lines 69-70: if self.saved_coordinatesBefore: mouse.move(*it)
stop_tool_69 ==
    /\ pcG = "p69"
    /\ pointer' = IF saved_coordinatesBefore # NoPoint
                  THEN saved_coordinatesBefore ELSE pointer
    /\ pcG' = "p72"
    /\ UNCHANGED <<shell, legacy, libs, core, lastLog, leftHeld, spaceHeld, orphanSuppressor,
                   listeners, wpc>>
    /\ UNCHANGED hist

\* line 72: self.f3_pressed = False
stop_tool_72 ==
    /\ pcG = "p72"
    /\ f3_pressed' = FALSE
    /\ pcG' = "p73"
    /\ UNCHANGED <<shell, legacy, libs, saved_coordinates, saved_coordinatesBefore, freeze_event,
                   worker_thread, mouse_listener, keyboard_listener, running,
                   lastLog, desktop, listeners, wpc>>
    /\ UNCHANGED hist

\* line 73
stop_tool_73 ==
    /\ pcG = "p73"
    /\ lastLog' = "Tool stopped"
    /\ pcG' = "idle"
    /\ UNCHANGED <<shell, legacy, libs, core, desktop, listeners, wpc>>
    /\ calledFrozen' = FALSE
    /\ UNCHANGED <<qSeen, engagePos>>

\* ---------------------------------------------------------------- _spacebar_worker
\* mutant of spacebar_worker_80: while True
spacebar_worker_80_forever(w) ==
    /\ wpc[w] = "w80"
    /\ wpc' = [wpc EXCEPT ![w] = "w81"]
    /\ UNCHANGED <<shell, legacy, libs, core, lastLog, desktop, pcG, listeners, hist>>

\* line 80: while self.running
spacebar_worker_80(w) ==
    /\ wpc[w] = "w80"
    /\ wpc' = [wpc EXCEPT ![w] = IF running THEN "w81" ELSE "exit"]
    /\ UNCHANGED <<shell, legacy, libs, core, lastLog, desktop, pcG, listeners>>
    /\ UNCHANGED hist

\* line 81: freeze_event.wait(timeout=0.1) is entered: it returns True at once
\* when the flag is set, and blocks otherwise
spacebar_worker_81(w) ==
    /\ wpc[w] = "w81"
    /\ wpc' = [wpc EXCEPT ![w] = IF freeze_event THEN "w82" ELSE "w81b"]
    /\ UNCHANGED <<shell, legacy, libs, core, lastLog, desktop, pcG, listeners>>
    /\ UNCHANGED hist

\* line 81: the blocked wait() times out and returns False (a set() moves the
\* thread to line 82 instead, see EventSet)
spacebar_worker_81_timeout(w) ==
    /\ wpc[w] = "w81b"
    /\ wpc' = [wpc EXCEPT ![w] = "w80"]
    /\ UNCHANGED <<shell, legacy, libs, core, lastLog, desktop, pcG, listeners>>
    /\ UNCHANGED hist

\* line 82: if not self.running: break
spacebar_worker_82(w) ==
    /\ wpc[w] = "w82"
    /\ wpc' = [wpc EXCEPT ![w] = IF ~running THEN "exit" ELSE "w84"]
    /\ UNCHANGED <<shell, legacy, libs, core, lastLog, desktop, pcG, listeners>>
    /\ UNCHANGED hist

\* mutant of spacebar_worker_84: the worker ends when the event is clear
spacebar_worker_84_exit(w) ==
    /\ wpc[w] = "w84"
    /\ wpc' = [wpc EXCEPT ![w] = IF freeze_event THEN "w85" ELSE "exit"]
    /\ UNCHANGED <<shell, legacy, libs, core, lastLog, desktop, pcG, listeners, hist>>

\* line 84: if self.freeze_event.is_set()
spacebar_worker_84(w) ==
    /\ wpc[w] = "w84"
    /\ wpc' = [wpc EXCEPT ![w] = IF freeze_event THEN "w85" ELSE "w80"]
    /\ UNCHANGED <<shell, legacy, libs, core, lastLog, desktop, pcG, listeners>>
    /\ UNCHANGED hist

\* lines 85-86: kb.press(space), sleep
spacebar_worker_85(w) ==
    /\ wpc[w] = "w85"
    /\ spaceHeld' = TRUE
    /\ wpc' = [wpc EXCEPT ![w] = "w87"]
    /\ UNCHANGED <<shell, legacy, libs, core, lastLog, pointer, leftHeld, orphanSuppressor, pcG,
                   listeners>>
    /\ UNCHANGED hist

\* mutant of spacebar_worker_87: the loop is left, when running is false,
\* before the release
spacebar_worker_87_break(w) ==
    /\ wpc[w] = "w87"
    /\ spaceHeld' = (spaceHeld /\ ~running)
    /\ wpc' = [wpc EXCEPT ![w] = IF running THEN "w80" ELSE "exit"]
    /\ UNCHANGED <<shell, legacy, libs, core, lastLog, pointer, leftHeld, orphanSuppressor, pcG,
                   listeners, hist>>

\* lines 87-88: kb.release(space), sleep, back to the loop test
spacebar_worker_87(w) ==
    /\ wpc[w] = "w87"
    /\ spaceHeld' = FALSE
    /\ wpc' = [wpc EXCEPT ![w] = "w80"]
    /\ UNCHANGED <<shell, legacy, libs, core, lastLog, pointer, leftHeld, orphanSuppressor, pcG,
                   listeners>>
    /\ UNCHANGED hist

\* the thread's run() returns: is_alive() becomes False
spacebar_worker_exit(w) ==
    /\ wpc[w] = "exit"
    /\ wpc' = [wpc EXCEPT ![w] = "dead"]
    /\ UNCHANGED <<shell, legacy, libs, core, lastLog, desktop, pcG, listeners>>
    /\ UNCHANGED hist

\* ---------------------------------------------------------------- on_press
\* the listener thread i takes the next key event and calls on_press(key)
Deliver(i, k) ==
    /\ klActive[i]
    /\ lpc[i] = "idle"
    /\ lkey' = [lkey EXCEPT ![i] = k]
    /\ lpc' = [lpc EXCEPT ![i] = "o92"]
    /\ UNCHANGED <<shell, legacy, libs, core, lastLog, desktop, pcG, klActive, wpc>>
    /\ UNCHANGED hist

\* mutant of SetPointGuard: every 'q' captures, a point saved or not
SetPointGuard_always(k) == IsQ(k)

\* line 92: the key is 'q' (either case) and no point is saved yet
SetPointGuard(k) == IsQ(k) /\ saved_coordinates = NoPoint

\* mutant of ToggleGuard: F3 toggles whether or not a point is saved
ToggleGuard_NoAnchor(k) == IsF3(k)

\* line 101: the key is F3 and a point is saved
ToggleGuard(k) == IsF3(k) /\ saved_coordinates # NoPoint

\* lines 92-93
on_press_92(i) ==
    /\ lpc[i] = "o92"
    /\ lpc' = [lpc EXCEPT ![i] = IF SetPointGuard(lkey[i])
                                  THEN (IF pyautogui THEN "o94" ELSE "o97")
                                  ELSE "o101"]
    /\ UNCHANGED <<shell, legacy, libs, core, lastLog, desktop, pcG, klActive, lkey, wpc>>
    /\ qSeen' = (qSeen \/ IsQ(lkey[i]))
    /\ UNCHANGED <<calledFrozen, engagePos>>

\* line 94: self.saved_coordinates = pyautogui.position()
on_press_94(i) ==
    /\ lpc[i] = "o94"
    /\ saved_coordinates' = pointer
    /\ lpc' = [lpc EXCEPT ![i] = "o95"]
    /\ UNCHANGED <<shell, legacy, libs, saved_coordinatesBefore, f3_pressed, freeze_event,
                   worker_thread, mouse_listener, keyboard_listener, running,
                   lastLog, desktop, pcG, klActive, lkey, wpc>>
    /\ UNCHANGED hist

\* line 95
on_press_95(i) ==
    /\ lpc[i] = "o95"
    /\ lastLog' = "Saved coordinates"
    /\ lpc' = [lpc EXCEPT ![i] = "o101"]
    /\ UNCHANGED <<shell, legacy, libs, core, desktop, pcG, klActive, lkey, wpc>>
    /\ UNCHANGED hist

\* line 97
on_press_97(i) ==
    /\ lpc[i] = "o97"
    /\ lastLog' = "Error: pyautogui not available"
    /\ lpc' = [lpc EXCEPT ![i] = "o101"]
    /\ UNCHANGED <<shell, legacy, libs, core, desktop, pcG, klActive, lkey, wpc>>
    /\ UNCHANGED hist

\* lines 101-102: toggle_freeze() is called, or on_press returns
on_press_101(i) ==
    /\ lpc[i] = "o101"
    /\ lpc' = [lpc EXCEPT ![i] = IF ToggleGuard(lkey[i]) THEN "t105" ELSE "idle"]
    /\ lkey' = [lkey EXCEPT ![i] = None]
    /\ UNCHANGED <<shell, legacy, libs, core, lastLog, desktop, pcG, klActive, wpc>>
    /\ UNCHANGED hist

\* ---------------------------------------------------------------- toggle_freeze
\* line 105: self.f3_pressed = not self.f3_pressed
toggle_freeze_105(i) ==
    /\ lpc[i] = "t105"
    /\ f3_pressed' = ~f3_pressed
    /\ lpc' = [lpc EXCEPT ![i] = "t106"]
    /\ UNCHANGED <<shell, legacy, libs, saved_coordinates, saved_coordinatesBefore, freeze_event,
                   worker_thread, mouse_listener, keyboard_listener, running,
                   lastLog, desktop, pcG, klActive, lkey, wpc>>
    /\ UNCHANGED hist

\* lines 106-107: if self.f3_pressed (read again), if pyautogui
toggle_freeze_106(i) ==
    /\ lpc[i] = "t106"
    /\ lpc' = [lpc EXCEPT ![i] = IF f3_pressed
                                  THEN (IF pyautogui THEN "t108" ELSE "t110")
                                  ELSE "t126"]
    /\ UNCHANGED <<shell, legacy, libs, core, lastLog, desktop, pcG, klActive, lkey, wpc>>
    /\ UNCHANGED hist

\* mutant of toggle_freeze_108: the position is sampled on the first engage only
toggle_freeze_108_once(i) ==
    /\ lpc[i] = "t108"
    /\ saved_coordinatesBefore' = IF saved_coordinatesBefore = NoPoint
                                  THEN pointer ELSE saved_coordinatesBefore
    /\ lpc' = [lpc EXCEPT ![i] = "t110"]
    /\ UNCHANGED <<shell, legacy, libs, saved_coordinates, f3_pressed, freeze_event,
                   worker_thread, mouse_listener, keyboard_listener, running,
                   lastLog, desktop, pcG, klActive, lkey, wpc>>
    /\ engagePos' = pointer
    /\ UNCHANGED <<qSeen, calledFrozen>>

\* line 108: self.saved_coordinatesBefore = pyautogui.position()
toggle_freeze_108(i) ==
    /\ lpc[i] = "t108"
    /\ saved_coordinatesBefore' = pointer
    /\ lpc' = [lpc EXCEPT ![i] = "t110"]
    /\ UNCHANGED <<shell, legacy, libs, saved_coordinates, f3_pressed, freeze_event,
                   worker_thread, mouse_listener, keyboard_listener, running,
                   lastLog, desktop, pcG, klActive, lkey, wpc>>
    /\ engagePos' = pointer
    /\ UNCHANGED <<qSeen, calledFrozen>>

\* lines 110-112: log("Freeze ENABLED"), if mouse
toggle_freeze_110(i) ==
    /\ lpc[i] = "t110"
    /\ lastLog' = "Freeze ENABLED"
    /\ lpc' = [lpc EXCEPT ![i] = IF mouse THEN "t113" ELSE "t119"]
    /\ UNCHANGED <<shell, legacy, libs, core, desktop, pcG, klActive, lkey, wpc>>
    /\ UNCHANGED hist

\* mutant of toggle_freeze_113: the suppressing listener is installed first
toggle_freeze_113_suppress(i) ==
    /\ lpc[i] = "t113"
    /\ leftHeld' = FALSE
    /\ mouse_listener' = "live"
    /\ lpc' = [lpc EXCEPT ![i] = "t115"]
    /\ UNCHANGED <<shell, legacy, libs, saved_coordinates, saved_coordinatesBefore, f3_pressed,
                   freeze_event, worker_thread, keyboard_listener, running,
                   lastLog, pointer, spaceHeld, orphanSuppressor, pcG,
                   klActive, lkey, wpc, hist>>

\* lines 113-114: mouse.release('left'), mouse.release('right') (the tool
\* never presses the right button)
toggle_freeze_113(i) ==
    /\ lpc[i] = "t113"
    /\ leftHeld' = FALSE
    /\ lpc' = [lpc EXCEPT ![i] = "t115"]
    /\ UNCHANGED <<shell, legacy, libs, core, lastLog, pointer, spaceHeld, orphanSuppressor, pcG,
                   klActive, lkey, wpc>>
    /\ UNCHANGED hist

\* lines 115-116: if self.saved_coordinates: mouse.move(*it)
toggle_freeze_115(i) ==
    /\ lpc[i] = "t115"
    /\ pointer' = IF saved_coordinates # NoPoint THEN saved_coordinates ELSE pointer
    /\ lpc' = [lpc EXCEPT ![i] = "t117"]
    /\ UNCHANGED <<shell, legacy, libs, core, lastLog, leftHeld, spaceHeld, orphanSuppressor, pcG,
                   klActive, lkey, wpc>>
    /\ UNCHANGED hist

\* line 117: mouse.press('left')
toggle_freeze_117(i) ==
    /\ lpc[i] = "t117"
    /\ leftHeld' = TRUE
    /\ lpc' = [lpc EXCEPT ![i] = "t119"]
    /\ UNCHANGED <<shell, legacy, libs, core, lastLog, pointer, spaceHeld, orphanSuppressor, pcG,
                   klActive, lkey, wpc>>
    /\ UNCHANGED hist

\* line 119: self.freeze_event.set(); line 122: if pynput
toggle_freeze_119(i) ==
    /\ lpc[i] = "t119"
    /\ freeze_event' = TRUE
    /\ wpc' = EventSet(wpc)
    /\ lpc' = [lpc EXCEPT ![i] = IF pynput THEN "t123" ELSE "idle"]
    /\ UNCHANGED <<shell, legacy, libs, saved_coordinates, saved_coordinatesBefore, f3_pressed,
                   worker_thread, mouse_listener, keyboard_listener, running,
                   lastLog, desktop, pcG, klActive, lkey>>
    /\ UNCHANGED hist

\* lines 123-124: a new pynput.mouse.Listener(suppress=True), started; a started
\* listener the handle referred to stays installed with no handle left to it
toggle_freeze_123(i) ==
    /\ lpc[i] = "t123"
    /\ orphanSuppressor' = (orphanSuppressor \/ mouse_listener = "live")
    /\ mouse_listener' = "live"
    /\ lpc' = [lpc EXCEPT ![i] = "idle"]
    /\ UNCHANGED <<shell, legacy, libs, saved_coordinates, saved_coordinatesBefore, f3_pressed,
                   freeze_event, worker_thread, keyboard_listener, running,
                   lastLog, pointer, leftHeld, spaceHeld, pcG, klActive, lkey, wpc>>
    /\ UNCHANGED hist

\* line 126
toggle_freeze_126(i) ==
    /\ lpc[i] = "t126"
    /\ lastLog' = "Freeze DISABLED"
    /\ lpc' = [lpc EXCEPT ![i] = "t127"]
    /\ UNCHANGED <<shell, legacy, libs, core, desktop, pcG, klActive, lkey, wpc>>
    /\ UNCHANGED hist

\* line 127: self.freeze_event.clear()
toggle_freeze_127(i) ==
    /\ lpc[i] = "t127"
    /\ freeze_event' = FALSE
    /\ lpc' = [lpc EXCEPT ![i] = "t128"]
    /\ UNCHANGED <<shell, legacy, libs, saved_coordinates, saved_coordinatesBefore, f3_pressed,
                   worker_thread, mouse_listener, keyboard_listener, running,
                   lastLog, desktop, pcG, klActive, lkey, wpc>>
    /\ UNCHANGED hist

\* mutant of toggle_freeze_128: the suppressing listener is not stopped
toggle_freeze_128_skip(i) ==
    /\ lpc[i] = "t128"
    /\ lpc' = [lpc EXCEPT ![i] = IF mouse THEN "t133" ELSE "idle"]
    /\ UNCHANGED <<shell, legacy, libs, core, lastLog, desktop, pcG, klActive, lkey, wpc, hist>>

\* line 128: if self.mouse_listener; line 132: if mouse
toggle_freeze_128(i) ==
    /\ lpc[i] = "t128"
    /\ lpc' = [lpc EXCEPT ![i] = IF mouse_listener # None THEN "t129"
                                  ELSE IF mouse THEN "t133" ELSE "idle"]
    /\ UNCHANGED <<shell, legacy, libs, core, lastLog, desktop, pcG, klActive, lkey, wpc>>
    /\ UNCHANGED hist

\* line 129: self.mouse_listener.stop(). When another listener thread has set
\* the handle to None since line 128, None.stop() raises AttributeError out of
\* on_press, which ends the listener thread.
toggle_freeze_129(i) ==
    /\ lpc[i] = "t129"
    /\ IF mouse_listener = None
       THEN /\ klActive' = [klActive EXCEPT ![i] = FALSE]
            /\ lpc' = [lpc EXCEPT ![i] = "idle"]
            /\ UNCHANGED mouse_listener
       ELSE /\ mouse_listener' = "stopped"
            /\ lpc' = [lpc EXCEPT ![i] = "t130"]
            /\ UNCHANGED klActive
    /\ UNCHANGED <<shell, legacy, libs, saved_coordinates, saved_coordinatesBefore, f3_pressed,
                   freeze_event, worker_thread, keyboard_listener, running,
                   lastLog, desktop, pcG, lkey, wpc>>
    /\ UNCHANGED hist

\* mutant of toggle_freeze_130: the stopped listener's handle is kept, as
\* stop_tool keeps it
toggle_freeze_130_keep(i) ==
    /\ lpc[i] = "t130"
    /\ lpc' = [lpc EXCEPT ![i] = IF mouse THEN "t133" ELSE "idle"]
    /\ UNCHANGED <<shell, legacy, libs, core, lastLog, desktop, pcG, klActive, lkey, wpc, hist>>

\* line 130: self.mouse_listener = None; line 132: if mouse
toggle_freeze_130(i) ==
    /\ lpc[i] = "t130"
    /\ orphanSuppressor' = (orphanSuppressor \/ mouse_listener = "live")
    /\ mouse_listener' = None
    /\ lpc' = [lpc EXCEPT ![i] = IF mouse THEN "t133" ELSE "idle"]
    /\ UNCHANGED <<shell, legacy, libs, saved_coordinates, saved_coordinatesBefore, f3_pressed,
                   freeze_event, worker_thread, keyboard_listener, running,
                   lastLog, pointer, leftHeld, spaceHeld, pcG, klActive, lkey, wpc>>
    /\ UNCHANGED hist

\* line 133: mouse.release('left')
toggle_freeze_133(i) ==
    /\ lpc[i] = "t133"
    /\ leftHeld' = FALSE
    /\ lpc' = [lpc EXCEPT ![i] = "t134"]
    /\ UNCHANGED <<shell, legacy, libs, core, lastLog, pointer, spaceHeld, orphanSuppressor, pcG,
                   klActive, lkey, wpc>>
    /\ UNCHANGED hist

\* lines 134-135: if self.saved_coordinatesBefore: mouse.move(*it); on_press
\* returns
toggle_freeze_134(i) ==
    /\ lpc[i] = "t134"
    /\ pointer' = IF saved_coordinatesBefore # NoPoint
                  THEN saved_coordinatesBefore ELSE pointer
    /\ lpc' = [lpc EXCEPT ![i] = "idle"]
    /\ UNCHANGED <<shell, legacy, libs, core, lastLog, leftHeld, spaceHeld, orphanSuppressor, pcG,
                   klActive, lkey, wpc>>
    /\ UNCHANGED hist

\* ---------------------------------------------------------------- failing calls
\* the statements of on_press and toggle_freeze that call pyautogui.position,
\* mouse.release, mouse.move, mouse.press or start the suppressing listener
CallSites == {"o94", "t108", "t113", "t115", "t117", "t123", "t133", "t134"}

\* such a call raises (not an AttributeError). toggle_freeze has no try, and the
\* except clause of on_press (line 98) names AttributeError only: the exception
\* leaves on_press with nothing logged, and ends the listener thread.
on_press_raise(i) ==
    /\ lpc[i] \in CallSites
    /\ lpc[i] = "t134" => saved_coordinatesBefore # NoPoint
    /\ lpc' = [lpc EXCEPT ![i] = "idle"]
    /\ lkey' = [lkey EXCEPT ![i] = None]
    /\ klActive' = [klActive EXCEPT ![i] = FALSE]
    /\ UNCHANGED <<shell, legacy, libs, core, lastLog, desktop, pcG, wpc, hist>>

\* mouse.release (line 68) or mouse.move (line 70) raises: stop_tool has no
\* try, the exception leaves it before line 72
stop_tool_raise ==
    /\ pcG \in {"p68", "p69"}
    /\ pcG = "p69" => saved_coordinatesBefore # NoPoint
    /\ pcG' = "idle"
    /\ calledFrozen' = FALSE
    /\ UNCHANGED <<shell, legacy, libs, core, lastLog, desktop, listeners, wpc, qSeen, engagePos>>

\* ---------------------------------------------------------------- the user
\* the user moves the mouse: the pointer follows unless a suppressing mouse
\* listener swallows the movement
MovePointer(p) ==
    /\ ~Suppressed
    /\ p # pointer
    /\ pointer' = p
    /\ UNCHANGED <<shell, legacy, libs, core, lastLog, leftHeld, spaceHeld, orphanSuppressor, pcG,
                   listeners, wpc>>
    /\ UNCHANGED hist

\* ---------------------------------------------------------------- Next
\* a stopped listener's thread is still running a callback
StaleCallback == \E i \in Listeners : ~klActive[i] /\ lpc[i] # "idle"

GuiStep ==
    \/ start_tool_46 \/ start_tool_50 \/ start_tool_54
    \/ stop_tool \/ stop_tool_59 \/ stop_tool_60 \/ stop_tool_62 \/ stop_tool_63
    \/ stop_tool_64 \/ stop_tool_67 \/ stop_tool_68 \/ stop_tool_69
    \/ stop_tool_72 \/ stop_tool_73

ListenerStep(i) ==
    \/ \E k \in Keys : Deliver(i, k)
    \/ on_press_92(i) \/ on_press_94(i) \/ on_press_95(i) \/ on_press_97(i)
    \/ on_press_101(i)
    \/ toggle_freeze_105(i) \/ toggle_freeze_106(i)
    \/ toggle_freeze_108(i) \/ toggle_freeze_110(i) \/ toggle_freeze_113(i)
    \/ toggle_freeze_115(i) \/ toggle_freeze_117(i)
    \/ toggle_freeze_119(i) \/ toggle_freeze_123(i) \/ toggle_freeze_126(i)
    \/ toggle_freeze_127(i) \/ toggle_freeze_128(i) \/ toggle_freeze_129(i)
    \/ toggle_freeze_130(i) \/ toggle_freeze_133(i) \/ toggle_freeze_134(i)

WorkerStep(w) ==
    \/ spacebar_worker_80(w) \/ spacebar_worker_81(w)
    \/ spacebar_worker_81_timeout(w) \/ spacebar_worker_82(w)
    \/ spacebar_worker_84(w) \/ spacebar_worker_85(w) \/ spacebar_worker_87(w)
    \/ spacebar_worker_exit(w)

\* Every thread of the program, with one scheduling assumption: the caller
\* starts the tool again only after the callback a stopped listener was running
\* has returned (a click later), so that one listener thread runs on_press at a
\* time. A callback still running when stop_tool runs, or after it has
\* returned, is part of the model.
Next ==
    \/ (~StaleCallback /\ start_tool)
    \/ GuiStep
    \/ \E i \in Listeners : ListenerStep(i)
    \/ \E w \in Workers : WorkerStep(w)
    \/ \E p \in Points : MovePointer(p)

Spec == Init /\ [][Next]_vars

\* SpecFair: Spec under fair scheduling of the worker threads: a worker thread
\* that can take a step (its sleeps and its wait time out) eventually takes one.
SpecFair ==
    /\ Spec
    /\ \A w \in Workers : WF_vars(WorkerStep(w))

\* SpecFairAll: SpecFair, and in addition a callback a listener thread is
\* running goes on, and so does a call the caller's thread is in.
SpecFairAll ==
    /\ SpecFair
    /\ \A i \in Listeners : WF_vars(ListenerStep(i) /\ lpc[i] # "idle")
    /\ WF_vars(GuiStep /\ pcG # "idle")

\* SpecFail: as Spec, and in addition any single call of the mouse or pyautogui
\* library may raise.
NextFail ==
    \/ Next
    \/ \E i \in Listeners : on_press_raise(i)
    \/ stop_tool_raise

SpecFail == Init /\ [][NextFail]_vars

\* ================================================================ claims
TogglePcs == {"t105", "t106", "t108", "t110", "t113", "t115", "t117", "t119",
              "t123", "t126", "t127", "t128", "t129", "t130", "t133", "t134"}
StopPcs == {"p59", "p60", "p62", "p63", "p64", "p67", "p68", "p69", "p72", "p73"}
\* listener thread i is inside toggle_freeze
InToggle(i) == lpc[i] \in TogglePcs
\* no on_press callback is running
NoCallback == \A i \in Listeners : lpc[i] = "idle"
\* no start_tool or stop_tool call is in progress
GuiIdle == pcG = "idle"
\* listener thread i returns from a disengaging toggle_freeze in this step
DisengageReturns(i) == lpc[i] \in {"t128", "t130", "t134"} /\ lpc'[i] = "idle"
LiveWorkers == {w \in Workers : is_alive(w)}

\* C1: f3_pressed is never true while saved_coordinates is None, and an F3
\* event handled while saved_coordinates is None never enters toggle_freeze.
C1_FrozenNeedsAnchor ==
    saved_coordinates = NoPoint =>
        (~f3_pressed /\ \A i \in Listeners : ~InToggle(i))

\* an F3 event is at line 101 with no point saved
C1_Witness ==
    \E i \in Listeners :
        lpc[i] = "o101" /\ lkey[i] = "f3" /\ saved_coordinates = NoPoint /\ running

\* C2: within a session the first 'q' event captures the pointer position
\* (line 94) and every later 'q' event skips the capture.
C2_FirstQCapturesOnce ==
    [][\A i \in Listeners :
          (lpc[i] = "o92" /\ lpc'[i] # "o92" /\ IsQ(lkey[i]) /\ running /\ pyautogui)
              => IF qSeen THEN lpc'[i] = "o101" /\ saved_coordinates' = saved_coordinates
                          ELSE lpc'[i] = "o94"]_vars

\* C3: a stop_tool call that began with f3_pressed true (mouse available)
\* releases the left button (line 68), moves the pointer to
\* saved_coordinatesBefore (line 70) and returns with running false, f3_pressed
\* false and the left button not held.
C3_StopWhileFrozen ==
    [][(calledFrozen /\ mouse) =>
          /\ (pcG = "p67" /\ pcG' # "p67") => pcG' = "p68"
          /\ (pcG = "p69" /\ pcG' # "p69")
                 => (saved_coordinatesBefore # NoPoint
                     /\ pointer' = saved_coordinatesBefore)
          /\ (pcG = "p73" /\ pcG' = "idle")
                 => (~running' /\ ~f3_pressed' /\ ~leftHeld')]_vars

\* C4: when stop_tool returns, saved_coordinates is None.
C4_StopClearsAnchor ==
    [][(pcG = "p73" /\ pcG' = "idle") => saved_coordinates' = NoPoint]_vars

C6_FrozenPinsPointer ==
    (f3_pressed /\ mouse /\ pcG \notin StopPcs /\ \A i \in Listeners : ~InToggle(i))
        => (pointer = saved_coordinates /\ leftHeld)

\* C7: with no operation in progress, mouse_listener is non-null exactly when
\* f3_pressed is true.
C7_HandleIffFrozen ==
    (GuiIdle /\ NoCallback) => ((mouse_listener # None) <=> f3_pressed)

C10_NoKeyHandlingWhenStopped ==
    [][\A i \in Listeners :
          (~running /\ lpc[i] # "idle" /\ lpc'[i] # lpc[i])
              => /\ saved_coordinates' = saved_coordinates
                 /\ f3_pressed' = f3_pressed
                 /\ freeze_event' = freeze_event
                 /\ mouse_listener' = mouse_listener
                 /\ leftHeld' = leftHeld
                 /\ pointer' = pointer]_vars

\* C11: with the keyboard hook missing (keyboard is None), a start_tool call
\* logs the error, leaves running false, creates no listener and no worker and
\* returns; so no session ever runs and no thread ever exists.
C11_StartWithoutKeyboard ==
    /\ [](~keyboard => (/\ ~running /\ GuiIdle
                        /\ keyboard_listener = NoThread /\ worker_thread = NoThread
                        /\ \A i \in Listeners : ~klActive[i]
                        /\ LiveWorkers = {}))
    /\ [][(start_tool /\ ~keyboard)
             => (/\ lastLog' = "Error: pynput.keyboard not available"
                 /\ pcG' = "idle"
                 /\ UNCHANGED <<shell, legacy, libs, core, desktop, listeners, wpc>>)]_vars

\* start_tool has reported the missing keyboard hook
C11_Witness ==
    ~keyboard /\ lastLog = "Error: pynput.keyboard not available" /\ ~running

\* C12: a start_tool call made while running is true changes nothing: no
\* listener, no worker, no log message, no field.
C12_StartWhileRunning ==
    [][(start_tool /\ running) => UNCHANGED vars]_vars

\* a running session, frozen, in which start_tool can be called again
C12_Witness ==
    /\ running /\ GuiIdle /\ ENABLED start_tool
    /\ klActive[keyboard_listener] /\ is_alive(worker_thread) /\ f3_pressed

\* C13: a stop_tool call made while running is false changes nothing: no mouse
\* action, no log message, no field.
C13_StopWhileStopped ==
    [][(stop_tool /\ ~running) => UNCHANGED vars]_vars

\* a stopped tool, after a session, in which stop_tool can be called again
C13_Witness ==
    ~running /\ GuiIdle /\ ENABLED stop_tool /\ lastLog = "Tool stopped"

\* C14: a failing mouse or pyautogui call never leaves the tool, with no call
\* in progress, with f3_pressed true while freeze_event is clear and no
\* suppressing listener is installed.
C14_FailureLeavesNoHalfFreeze ==
    (GuiIdle /\ NoCallback /\ f3_pressed)
        => (freeze_event \/ mouse_listener = "live")

\* C15: f3_pressed changes only at line 105 of a toggle_freeze call, the call
\* that then logs "Freeze ENABLED" (line 110) or "Freeze DISABLED" (line 126);
\* so every change of f3_pressed is announced, also the one stop_tool makes.
C15_EveryFlipIsAnnounced ==
    [][/\ (f3_pressed' # f3_pressed)
             => \E i \in Listeners : lpc[i] = "t105" /\ lpc'[i] = "t106"
       /\ \A i \in Listeners :
             /\ (lpc[i] = "t110" /\ lpc'[i] # "t110") => lastLog' = "Freeze ENABLED"
             /\ (lpc[i] = "t126" /\ lpc'[i] # "t126") => lastLog' = "Freeze DISABLED"]_vars

\* C16: a key event that is not 'q' with no point saved skips the capture, and
\* one that is not F3 with a point saved returns from on_press; neither step
\* changes a field, logs, or injects input.
C16_OtherKeysChangeNothing ==
    [][\A i \in Listeners :
          /\ (/\ lpc[i] = "o92" /\ lpc'[i] # "o92"
              /\ ~(lkey[i] \in {"q", "Q"} /\ saved_coordinates = NoPoint))
                 => (lpc'[i] = "o101" /\ UNCHANGED <<core, desktop, lastLog>>)
          /\ (/\ lpc[i] = "o101" /\ lpc'[i] # "o101"
              /\ ~(lkey[i] = "f3" /\ saved_coordinates # NoPoint))
                 => (lpc'[i] = "idle" /\ UNCHANGED <<core, desktop, lastLog>>)]_vars

\* a key that is neither 'q' nor F3 is being handled while frozen
C16_Witness ==
    \E i \in Listeners :
        lpc[i] = "o101" /\ lkey[i] = "x" /\ f3_pressed /\ running /\ GuiIdle

\* C17: once stop_tool has returned and no callback is running, no suppressing
\* mouse listener is installed, the left button is not held and f3_pressed is
\* false.
C17_StopLeavesNothingEngaged ==
    (~running /\ GuiIdle /\ NoCallback)
        => (~Suppressed /\ ~leftHeld /\ ~f3_pressed)

\* C18: a worker that checks freeze_event (line 84) once f3_pressed has become
\* false, with no toggle_freeze or stop_tool call in progress, finds it clear
\* and starts no press.
C18_NoPressOnceUnfrozen ==
    [][\A w \in Workers :
          (wpc[w] = "w84" /\ wpc'[w] = "w85" /\ GuiIdle /\ NoCallback)
              => f3_pressed]_vars

\* C19: under fair scheduling, whenever running is false the worker thread
\* ends, unless start_tool sets running again.
C19_WorkerEndsAfterStop ==
    (~running /\ GuiIdle) ~> (LiveWorkers = {} \/ running)

\* stop_tool has returned and the session's worker has ended
C19_Witness ==
    /\ ~running /\ GuiIdle /\ lastLog = "Tool stopped"
    /\ worker_thread # NoThread /\ LiveWorkers = {}

\* C20: the spacebar is held only while a worker is between its press (line 85)
\* and its release (line 87), and the worker's next step from there releases it
\* and goes back to the loop test; a worker that has ended or waits on
\* freeze_event leaves no spacebar held.
C20_SpaceNeverLeftHeld ==
    /\ [](spaceHeld => \E w \in Workers : wpc[w] = "w87")
    /\ [][\A w \in Workers :
             (wpc[w] = "w87" /\ wpc'[w] # "w87")
                 => (~spaceHeld' /\ wpc'[w] = "w80")]_vars

\* a worker that tapped has ended after stop_tool, or waits on freeze_event
\* after a disengage, with the spacebar not held
C20_Witness ==
    /\ ~spaceHeld /\ saved_coordinatesBefore # NoPoint /\ ~f3_pressed
    /\ worker_thread # NoThread /\ wpc[worker_thread] \in {"dead", "w81b"}

\* C21: under fair scheduling, in a running session with f3_pressed true and
\* the spacebar up, the worker presses the spacebar again, unless freeze is
\* disengaged or the tool stopped; and a pressed spacebar is released.
C21_TapsWhileFrozen ==
    /\ (f3_pressed /\ running /\ ~spaceHeld)
           ~> (~f3_pressed \/ ~running \/ spaceHeld)
    /\ spaceHeld ~> ~spaceHeld

\* C22: when stop_tool, called while frozen, stops the keyboard listener
\* (line 61), freeze_event is already clear, the suppressing mouse listener
\* already stopped and the left button already released.
C22_DisengageBeforeListenerStop ==
    [][(pcG = "p60" /\ pcG' = "p62" /\ calledFrozen /\ mouse)
          => (~freeze_event /\ mouse_listener # "live" /\ ~leftHeld)]_vars

\* the position of a statement in the engage branch of toggle_freeze
EngageRank(pc) ==
    CASE pc = "t108" -> 1 [] pc = "t110" -> 2 [] pc = "t113" -> 3
      [] pc = "t115" -> 4 [] pc = "t117" -> 5 [] pc = "t119" -> 6
      [] pc = "t123" -> 7 [] OTHER -> 0

\* C23: a listener thread in the engage branch only moves forward through it,
\* and makes each effect at its own place: the sample at line 108, the release
\* at 113, the move to saved_coordinates at 116, the press at 117, the set of
\* freeze_event at 119, the suppressing listener at 123-124.
C23_EngageOrder ==
    [][\A i \in Listeners :
          (EngageRank(lpc[i]) > 0 /\ lpc'[i] # lpc[i])
              => /\ lpc'[i] = "idle" \/ EngageRank(lpc'[i]) > EngageRank(lpc[i])
                 /\ saved_coordinatesBefore' # saved_coordinatesBefore
                        => lpc[i] = "t108"
                 /\ leftHeld' # leftHeld
                        => (lpc[i] = "t113" /\ ~leftHeld') \/ (lpc[i] = "t117" /\ leftHeld')
                 /\ pointer' # pointer
                        => (lpc[i] = "t115" /\ pointer' = saved_coordinates)
                 /\ freeze_event' # freeze_event
                        => (lpc[i] = "t119" /\ freeze_event')
                 /\ mouse_listener' # mouse_listener
                        => (lpc[i] = "t123" /\ mouse_listener' = "live")]_vars

\* an engage has moved, pressed and set the event and is about to install the
\* suppressing listener
C23_Witness ==
    \E i \in Listeners :
        /\ lpc[i] = "t123" /\ mouse /\ leftHeld /\ pointer = saved_coordinates
        /\ freeze_event /\ mouse_listener = None
        /\ saved_coordinatesBefore # saved_coordinates

\* the position of a statement in the disengage branch of toggle_freeze
DisengageRank(pc) ==
    CASE pc = "t126" -> 1 [] pc = "t127" -> 2 [] pc = "t128" -> 3
      [] pc = "t129" -> 4 [] pc = "t130" -> 5 [] pc = "t133" -> 6
      [] pc = "t134" -> 7 [] OTHER -> 0

C25_SingleWriter ==
    [][(\/ f3_pressed' # f3_pressed
        \/ saved_coordinates' # saved_coordinates
        \/ saved_coordinatesBefore' # saved_coordinatesBefore)
          => \E i \in Listeners :
                 lpc[i] \in {"o94", "t105", "t108"} /\ lpc'[i] # lpc[i]]_vars

\* C26: whenever start_tool has returned and running is true, a worker thread
\* is alive.
C26_RunningHasWorker ==
    (running /\ GuiIdle) => LiveWorkers # {}

\* C27: at most one worker thread is alive at a time.
C27_OneWorker ==
    Cardinality(LiveWorkers) <= 1

\* start_tool, called again after a stop, has found the last worker still alive
\* and started no other
C27_Witness ==
    /\ pcG = "s54" /\ running /\ lastLog = "Tool stopped"
    /\ worker_thread # NoThread /\ wpc[worker_thread] \in {"w81b", "w84", "exit"}

\* ================================================================ the window
\* Gui (src/src/ui/main_window.py) owns a FreezeTool and runs on the
\* GUI thread, the thread that calls start_tool and stop_tool.

\* the text log() is given at each of its call sites in freeze_logic.py (lines
\* 42, 54, 73, 95, 97, 110, 126); lastLog holds the part before any "(", ":"
\* or "." that follows. p is saved_coordinates, a pyautogui Point.
Message(l, p) ==
    CASE l = "Error: pynput.keyboard not available" ->
             "Error: pynput.keyboard not available (headless environment?)"
      [] l = "Tool started" ->
             "Tool started. Move mouse and press 'Q' to save coordinates."
      [] l = "Tool stopped" -> "Tool stopped."
      [] l = "Saved coordinates" ->
             "Saved coordinates: "
             \o (IF p = NoPoint THEN "None"
                 ELSE "Point(x=" \o ToString(p[1]) \o ", y=" \o ToString(p[2]) \o ")")
             \o ". Press F3 to freeze."
      [] l = "Error: pyautogui not available" -> "Error: pyautogui not available"
      [] l = "Freeze ENABLED" -> "Freeze ENABLED"
      [] l = "Freeze DISABLED" -> "Freeze DISABLED"
Logs == {"Error: pynput.keyboard not available", "Tool started", "Tool stopped",
         "Saved coordinates", "Error: pyautogui not available", "Freeze ENABLED",
         "Freeze DISABLED"}
\* the messages log() is given on the GUI thread (lines 42, 54, 73)
GuiLogs == {"Error: pynput.keyboard not available", "Tool started", "Tool stopped"}

\* str.lower() (line 344)
UpperCase == "ABCDEFGHIJKLMNOPQRSTUVWXYZ"
LowerCase == "abcdefghijklmnopqrstuvwxyz"
LowerChar(c) ==
    IF \E i \in 1..Len(UpperCase) : SubSeq(UpperCase, i, i) = c
    THEN LET i == CHOOSE j \in 1..Len(UpperCase) : SubSeq(UpperCase, j, j) = c
         IN  SubSeq(LowerCase, i, i)
    ELSE c
RECURSIVE lower(_)
lower(s) ==
    IF Len(s) = 0 THEN ""
    ELSE LowerChar(SubSeq(s, 1, 1)) \o lower(SubSeq(s, 2, Len(s)))
\* Python's `sub in s` for strings
in(sub, s) ==
    \E i \in 1..(Len(s) + 1 - Len(sub)) : SubSeq(s, i, i + Len(sub) - 1) = sub

\* lines 342-361: the state update_status_ui gives the status indicator for a
\* message
set_status(message) ==
    LET lower_msg == lower(message) IN
    IF in("frozen", lower_msg) \/ in("freeze", lower_msg) THEN "frozen"
    ELSE IF in("running", lower_msg) \/ in("started", lower_msg) THEN "running"
    ELSE IF in("stopped", lower_msg) THEN "stopped"
    ELSE IF in("point set", lower_msg) \/ in("saved", lower_msg) THEN "running"
    ELSE "ready"
\* set_status of every message the tool can log
StatusTable ==
    [l \in Logs, p \in Points \cup {NoPoint} |-> set_status(Message(l, p))]

\* The bridge (lines 48-62) hands every log() message to update_status_ui: at
\* once when log() runs on the GUI thread, through the event queue when it runs
\* on a listener thread. The queue is kept as its last entry: a message is
\* waiting when lastLog is a listener's message other than the one handled last.
Waiting == lastLog # None /\ lastLog # handled
\* the message start_tool or stop_tool logged has been handled when it returns
HandledOnReturn == IF lastLog \in GuiLogs THEN lastLog ELSE handled

\* lines 407-409, 416: a click on the start/stop button, up to the first
\* statements of the start_tool or stop_tool it calls
toggle_tool ==
    /\ gpc = "idle"
    /\ IF ~_is_running
       THEN start_tool_39 /\ gpc' = "g410"
       ELSE stop_tool_56 /\ gpc' = "g417"
    /\ UNCHANGED <<_is_running, status_indicator, handled, legacy>>

\* lines 410-414, once start_tool has returned
toggle_tool_410 ==
    /\ gpc = "g410"
    /\ pcG = "idle"
    /\ _is_running' = TRUE
    /\ status_indicator' = "running"
    /\ handled' = HandledOnReturn
    /\ gpc' = "idle"
    /\ UNCHANGED <<libs, core, lastLog, desktop, pcG, listeners, wpc, hist, legacy>>

\* lines 417-421, once stop_tool has returned
toggle_tool_417 ==
    /\ gpc = "g417"
    /\ pcG = "idle"
    /\ _is_running' = FALSE
    /\ status_indicator' = "ready"
    /\ handled' = HandledOnReturn
    /\ gpc' = "idle"
    /\ UNCHANGED <<libs, core, lastLog, desktop, pcG, listeners, wpc, hist, legacy>>

\* lines 342-361: the event loop delivers a listener's message
update_status_ui ==
    /\ gpc = "idle"
    /\ pcG = "idle"
    /\ Waiting
    /\ status_indicator' = StatusTable[lastLog, saved_coordinates]
    /\ handled' = lastLog
    /\ UNCHANGED <<libs, core, lastLog, desktop, pcG, listeners, wpc, hist, legacy,
                   _is_running, gpc>>

\* the GUI thread inside start_tool or stop_tool
ToolStep ==
    \/ start_tool_46 \/ start_tool_50 \/ start_tool_54
    \/ stop_tool_59 \/ stop_tool_60 \/ stop_tool_62 \/ stop_tool_63
    \/ stop_tool_64 \/ stop_tool_67 \/ stop_tool_68 \/ stop_tool_69
    \/ stop_tool_72 \/ stop_tool_73

\* The program run from main.py: the tool is started and stopped by the button
\* only. The scheduling assumption of Next applies to a click that starts, and
\* the user moves the mouse to choose the point to save, not after.
NextGui ==
    \/ ((~_is_running => ~StaleCallback) /\ toggle_tool)
    \/ toggle_tool_410 \/ toggle_tool_417 \/ update_status_ui
    \/ ToolStep
    \/ \E i \in Listeners : ListenerStep(i)
    \/ \E w \in Workers : WorkerStep(w)
    \/ \E p \in Points : (saved_coordinates = NoPoint /\ MovePointer(p))
SpecGui == Init /\ [][NextGui]_vars

\* C28: after every click on the start/stop button (toggle_tool has returned),
\* the window's _is_running equals the tool's running, also when start_tool
\* refused to start for want of the keyboard hook
C28_ButtonMatchesTool ==
    (gpc = "idle" /\ pcG = "idle") => (_is_running = running)

\* C29: update_status_ui puts the status indicator in the "frozen" state only
\* for a message logged with f3_pressed true: handling the point-saved message
\* or "Freeze DISABLED" does not leave the indicator in "frozen"
C29_FrozenMeansFrozen ==
    [][(update_status_ui /\ lastLog \in {"Saved coordinates", "Freeze DISABLED"})
       => status_indicator' # "frozen"]_vars

\* ================================================================ the legacy script
\* src/legacy/Freeze_standalone.py: the same tool as one script. Its keyboard
\* listener (lines 67-69) is one thread that runs on_press once per key event;
\* every engage starts a thread that runs press_spacebar. It shares the desktop
\* (pointer, leftHeld, spaceHeld) with nothing else: the tool and the window
\* are not running.
tool == <<libs, core, lastLog, orphanSuppressor, pcG, listeners, wpc, hist, shell>>

\* the slot a new press_spacebar thread takes
FreeTap ==
    IF \E t \in TapThreads : tpc[t] = "dead"
    THEN CHOOSE t \in TapThreads :
             tpc[t] = "dead" /\ \A u \in TapThreads : tpc[u] = "dead" => t <= u
    ELSE NoThread

\* the listener calls on_press(key)
standalone_Deliver(k) ==
    /\ opc = "idle"
    /\ opc' = "o26"
    /\ okey' = k
    /\ UNCHANGED <<tool, pointer, leftHeld, spaceHeld, standalone_saved_coordinates,
                   standalone_saved_coordinatesBefore, standalone_f3_pressed,
                   spacebar_pressed, standalone_mouse_listener, tpc>>

\* line 26: key.char raises AttributeError for a key without a char
standalone_on_press_26 ==
    /\ opc = "o26"
    /\ opc' = IF ~HasChar(okey) THEN "o31"
              ELSE IF Lower(okey) = "q" /\ standalone_saved_coordinates = NoPoint
                   THEN "o28" ELSE "idle"
    /\ UNCHANGED <<tool, pointer, leftHeld, spaceHeld, standalone_saved_coordinates,
                   standalone_saved_coordinatesBefore, standalone_f3_pressed,
                   spacebar_pressed, standalone_mouse_listener, okey, tpc>>

\* lines 28-29
standalone_on_press_28 ==
    /\ opc = "o28"
    /\ standalone_saved_coordinates' = pointer
    /\ opc' = "idle"
    /\ UNCHANGED <<tool, pointer, leftHeld, spaceHeld,
                   standalone_saved_coordinatesBefore, standalone_f3_pressed,
                   spacebar_pressed, standalone_mouse_listener, okey, tpc>>

\* line 31
standalone_on_press_31 ==
    /\ opc = "o31"
    /\ opc' = IF IsF3(okey) /\ standalone_saved_coordinates # NoPoint
              THEN "o33" ELSE "idle"
    /\ UNCHANGED <<tool, pointer, leftHeld, spaceHeld, standalone_saved_coordinates,
                   standalone_saved_coordinatesBefore, standalone_f3_pressed,
                   spacebar_pressed, standalone_mouse_listener, okey, tpc>>

\* lines 33-34
standalone_on_press_33 ==
    /\ opc = "o33"
    /\ standalone_f3_pressed' = ~standalone_f3_pressed
    /\ opc' = IF standalone_f3_pressed' THEN "o37" ELSE "o55"
    /\ UNCHANGED <<tool, pointer, leftHeld, spaceHeld, standalone_saved_coordinates,
                   standalone_saved_coordinatesBefore, spacebar_pressed,
                   standalone_mouse_listener, okey, tpc>>

\* lines 37-39
standalone_on_press_37 ==
    /\ opc = "o37"
    /\ standalone_saved_coordinatesBefore' = pointer
    /\ opc' = "o40"
    /\ UNCHANGED <<tool, pointer, leftHeld, spaceHeld, standalone_saved_coordinates,
                   standalone_f3_pressed, spacebar_pressed,
                   standalone_mouse_listener, okey, tpc>>

\* lines 40-41: mouse.release('left'), mouse.release('right')
standalone_on_press_40 ==
    /\ opc = "o40"
    /\ leftHeld' = FALSE
    /\ opc' = "o42"
    /\ UNCHANGED <<tool, pointer, spaceHeld, standalone_saved_coordinates,
                   standalone_saved_coordinatesBefore, standalone_f3_pressed,
                   spacebar_pressed, standalone_mouse_listener, okey, tpc>>

\* line 42: mouse.move(*saved_coordinates)
standalone_on_press_42 ==
    /\ opc = "o42"
    /\ pointer' = standalone_saved_coordinates
    /\ opc' = "o43"
    /\ UNCHANGED <<tool, leftHeld, spaceHeld, standalone_saved_coordinates,
                   standalone_saved_coordinatesBefore, standalone_f3_pressed,
                   spacebar_pressed, standalone_mouse_listener, okey, tpc>>

\* line 43: mouse.press('left')
standalone_on_press_43 ==
    /\ opc = "o43"
    /\ leftHeld' = TRUE
    /\ opc' = "o44"
    /\ UNCHANGED <<tool, pointer, spaceHeld, standalone_saved_coordinates,
                   standalone_saved_coordinatesBefore, standalone_f3_pressed,
                   spacebar_pressed, standalone_mouse_listener, okey, tpc>>

\* line 44
standalone_on_press_44 ==
    /\ opc = "o44"
    /\ spacebar_pressed' = TRUE
    /\ opc' = "o45"
    /\ UNCHANGED <<tool, pointer, leftHeld, spaceHeld, standalone_saved_coordinates,
                   standalone_saved_coordinatesBefore, standalone_f3_pressed,
                   standalone_mouse_listener, okey, tpc>>

\* line 45: threading.Thread(target=press_spacebar).start(), whatever threads
\* exist
standalone_on_press_45 ==
    /\ opc = "o45"
    /\ FreeTap # NoThread
    /\ tpc' = [tpc EXCEPT ![FreeTap] = "p17"]
    /\ opc' = "o47"
    /\ UNCHANGED <<tool, pointer, leftHeld, spaceHeld, standalone_saved_coordinates,
                   standalone_saved_coordinatesBefore, standalone_f3_pressed,
                   spacebar_pressed, standalone_mouse_listener, okey>>

\* lines 47-48: a new suppressing mouse listener, started; on_press returns
standalone_on_press_47 ==
    /\ opc = "o47"
    /\ standalone_mouse_listener' = "live"
    /\ opc' = "idle"
    /\ UNCHANGED <<tool, pointer, leftHeld, spaceHeld, standalone_saved_coordinates,
                   standalone_saved_coordinatesBefore, standalone_f3_pressed,
                   spacebar_pressed, okey, tpc>>

\* lines 53-55
standalone_on_press_55 ==
    /\ opc = "o55"
    /\ spacebar_pressed' = FALSE
    /\ opc' = "o56"
    /\ UNCHANGED <<tool, pointer, leftHeld, spaceHeld, standalone_saved_coordinates,
                   standalone_saved_coordinatesBefore, standalone_f3_pressed,
                   standalone_mouse_listener, okey, tpc>>

\* line 56: mouse_listener.stop()
standalone_on_press_56 ==
    /\ opc = "o56"
    /\ standalone_mouse_listener' = "stopped"
    /\ opc' = "o57"
    /\ UNCHANGED <<tool, pointer, leftHeld, spaceHeld, standalone_saved_coordinates,
                   standalone_saved_coordinatesBefore, standalone_f3_pressed,
                   spacebar_pressed, okey, tpc>>

\* line 57: mouse.release('left')
standalone_on_press_57 ==
    /\ opc = "o57"
    /\ leftHeld' = FALSE
    /\ opc' = "o58"
    /\ UNCHANGED <<tool, pointer, spaceHeld, standalone_saved_coordinates,
                   standalone_saved_coordinatesBefore, standalone_f3_pressed,
                   spacebar_pressed, standalone_mouse_listener, okey, tpc>>

\* line 58: mouse.move(*saved_coordinatesBefore); on_press returns
standalone_on_press_58 ==
    /\ opc = "o58"
    /\ pointer' = standalone_saved_coordinatesBefore
    /\ opc' = "idle"
    /\ UNCHANGED <<tool, leftHeld, spaceHeld, standalone_saved_coordinates,
                   standalone_saved_coordinatesBefore, standalone_f3_pressed,
                   spacebar_pressed, standalone_mouse_listener, okey, tpc>>

\* line 17: while spacebar_pressed (the thread ends when it reads False)
press_spacebar_17(t) ==
    /\ tpc[t] = "p17"
    /\ tpc' = [tpc EXCEPT ![t] = IF spacebar_pressed THEN "p18" ELSE "dead"]
    /\ UNCHANGED <<tool, pointer, leftHeld, spaceHeld, standalone_saved_coordinates,
                   standalone_saved_coordinatesBefore, standalone_f3_pressed,
                   spacebar_pressed, standalone_mouse_listener, opc, okey>>

\* lines 18-19: press space, then sleep
press_spacebar_18(t) ==
    /\ tpc[t] = "p18"
    /\ spaceHeld' = TRUE
    /\ tpc' = [tpc EXCEPT ![t] = "p19"]
    /\ UNCHANGED <<tool, pointer, leftHeld, standalone_saved_coordinates,
                   standalone_saved_coordinatesBefore, standalone_f3_pressed,
                   spacebar_pressed, standalone_mouse_listener, opc, okey>>

\* lines 19-21: the sleep ends; release space, then sleep
press_spacebar_20(t) ==
    /\ tpc[t] = "p19"
    /\ spaceHeld' = FALSE
    /\ tpc' = [tpc EXCEPT ![t] = "p21"]
    /\ UNCHANGED <<tool, pointer, leftHeld, standalone_saved_coordinates,
                   standalone_saved_coordinatesBefore, standalone_f3_pressed,
                   spacebar_pressed, standalone_mouse_listener, opc, okey>>

\* line 21: the sleep ends, back to line 17
press_spacebar_21(t) ==
    /\ tpc[t] = "p21"
    /\ tpc' = [tpc EXCEPT ![t] = "p17"]
    /\ UNCHANGED <<tool, pointer, leftHeld, spaceHeld, standalone_saved_coordinates,
                   standalone_saved_coordinatesBefore, standalone_f3_pressed,
                   spacebar_pressed, standalone_mouse_listener, opc, okey>>

\* the user moves the mouse, unless the suppressing listener swallows it
standalone_MovePointer(p) ==
    /\ standalone_mouse_listener # "live"
    /\ p # pointer
    /\ pointer' = p
    /\ UNCHANGED <<tool, leftHeld, spaceHeld, legacy>>

standalone_on_press ==
    \/ \E k \in Keys : standalone_Deliver(k)
    \/ standalone_on_press_26 \/ standalone_on_press_28 \/ standalone_on_press_31
    \/ standalone_on_press_33 \/ standalone_on_press_37 \/ standalone_on_press_40
    \/ standalone_on_press_42 \/ standalone_on_press_43 \/ standalone_on_press_44
    \/ standalone_on_press_45 \/ standalone_on_press_47 \/ standalone_on_press_55
    \/ standalone_on_press_56 \/ standalone_on_press_57 \/ standalone_on_press_58

press_spacebar(t) ==
    \/ press_spacebar_17(t) \/ press_spacebar_18(t)
    \/ press_spacebar_20(t) \/ press_spacebar_21(t)

NextLegacy ==
    \/ standalone_on_press
    \/ \E t \in TapThreads : press_spacebar(t)
    \/ \E p \in Points : standalone_MovePointer(p)
SpecLegacy == Init /\ [][NextLegacy]_vars

\* the press_spacebar threads that are alive
AliveTaps == {t \in TapThreads : tpc[t] # "dead"}

\* C30: in the standalone script at most one press_spacebar thread is alive at
\* a time, also when F3 is pressed off and on again within one tap cycle
C30_OneTapThread == Cardinality(AliveTaps) <= 1

====
